---- MODULE Spec2Model ----
(***************************************************************************)
(* A model of the request-handling core of makross:                        *)
(*   - Context (the handler chain engine: Next, Abort, the output helpers  *)
(*     String and NoContent, Reset),                                       *)
(*   - the body-limit middleware of package blimit with its pooled         *)
(*     limitedReader.                                                      *)
(* Specification Spec runs one Context through successive requests with    *)
(* handlers whose bodies are arbitrary bounded sequences of calls.         *)
(* Specification SpecBL serves several requests, each on a goroutine and a *)
(* Context of its own, through one body-limit middleware instance in the   *)
(* chain [pre, body-limit, down].                                          *)
(* Specification SpecRead drives one limitedReader with arbitrary chunks.  *)
(* Specification SpecCtx is Spec with the handlers also using the data     *)
(* store, the data writer and the standard context of the Context, and     *)
(* with a router assigning the route parameters.                           *)
(* Specification SpecLog runs a chain holding the access-log handler of    *)
(* package access. Specification SpecIP applies GetClientIP to requests.   *)
(***************************************************************************)
EXTENDS Integers, Sequences, FiniteSets, TLC

\* ------------------------------------------------------------------ bounds

\* The longest handler chain a Context is given.
MaxHandlers == 3

\* The most calls (Next, Abort, String, NoContent) one handler invocation makes
\* before it returns.
MaxOps == 2

\* The requests served through the body-limit middleware; they may overlap
\* or follow one another.
NumRequests == 2

\* The largest configured body limit (config.limit) in SpecBL, in bytes.
MaxLimit == 1

\* The largest limit of the limitedReader in SpecRead, in bytes.
MaxReadLimit == 2

\* The most Read calls made on one limitedReader in SpecRead.
MaxReads == 3

\* The longest handler chain that holds the access-log handler.
MaxLogChain == 4

\* The most bytes one Write or String call writes to the response.
MaxWrite == 2

\* ------------------------------------------------------------------ values

\* The nil error.
NoErr == "nil"

\* The error the data writer returns when writing the response body fails.
ErrWrite == "errWrite"

\* makross.ErrStatusRequestEntityTooLarge.
ErrTooLarge == "errTooLarge"

\* io.EOF, returned by a body stream that is exhausted.
ErrEOF == "EOF"

\* An error the handler after the body-limit middleware returns of its own.
ErrDown == "errDown"

ErrNames == <<"err0", "err1", "err2", "err3", "err4", "err5">>

\* The error value that the handler at position pos creates and returns.
ErrOf(pos) == ErrNames[pos + 1]

\* The nil interface value.
Nil == "<nil>"

\* makross.StatusOK, the status String writes when none is given.
StatusOK == 200

\* makross.DefaultDataWriter.
DefaultDataWriter == "DefaultDataWriter"

\* A data writer a handler installs with SetDataWriter.
CustomDataWriter == "customWriter"

\* context.Background(): never cancelled, no deadline.
Background == "Background"

\* The standard contexts a handler may pass to SetKontext: one derived with a
\* cancel function and not cancelled yet, one already cancelled.
Kontexts == {"derived", "cancelled"}

\* The names and values handlers keep in the data store.
Keys == {"k1", "k2"}

Values == {"v1", "v2"}

\* The parameter names and values the router finds for a request: a route
\* without parameters, and a route /users/<id> matched by /users/7.
Routes ==
    {[names |-> <<>>, values |-> <<>>],
     [names |-> <<"id">>, values |-> <<"7">>]}

\* ------------------------------------------------------------------ state

VARIABLES
    handlers,   \* Context.handlers: here its length, the positions being 0..handlers-1
    index,      \* Context.index
    stack,      \* the handler invocations in progress, innermost last
    phase,      \* "ready": Reset done, Next not yet called; "running"; "done"
    result,     \* what the top-level Next call returned
    hist,       \* observations of the current request (history, not program state)
    limit,      \* config.limit of the body-limit middleware instance
    req,        \* per request served through it: its Context, Request and goroutine
    readers,    \* the limitedReader objects allocated by the pool's New
    pool,       \* the limitedReaders sitting in the sync.Pool
    out,        \* the limitedReaders checked out (Get) and not yet returned (Put)
    lr,         \* SpecRead: the limitedReader under test
    chunks,     \* SpecRead: what each Read call on lr returned so far
    data,       \* Context.data: Nil, or the map of the items set
    ktx,        \* Context.ktx
    writer,     \* Context.writer
    pnames,     \* Context.pnames
    pvalues,    \* Context.pvalues
    expect,     \* per key, the value last Set in this request (history)
    prev,       \* while ready: what the request before the Reset left (history)
    assigned,   \* the router has assigned the parameters of this request (history)
    ac,         \* SpecLog: the Context and Response of the request being served
    logs,       \* SpecLog: the calls of the logging callback in this request
    ipReq,      \* SpecIP: the request GetClientIP is applied to
    ipRes       \* SpecIP: what GetClientIP returned for it

ctxVars == <<handlers, index, stack, phase, result, hist>>

blVars == <<limit, req, readers, pool, out>>

rdVars == <<lr, chunks>>

storeVars == <<data, ktx, writer, pnames, pvalues, expect, prev, assigned>>

logVars == <<ac, logs>>

ipVars == <<ipReq, ipRes>>

vars == <<handlers, index, stack, phase, result, hist,
          limit, req, readers, pool, out, lr, chunks,
          data, ktx, writer, pnames, pvalues, expect, prev, assigned,
          ac, logs, ipReq, ipRes>>

\* ------------------------------------------------- Context (pure functions)

\* The loop condition of Next and what follows from it: invoke handlers[idx],
\* or leave the loop and return nil.
LoopCheck(idx, n) ==
    IF idx < n
    THEN [index |-> idx, invoke |-> TRUE, ret |-> NoErr]
    ELSE [index |-> idx, invoke |-> FALSE, ret |-> NoErr]

\* Context.Next from its entry to the first handler invocation or its return.
NextEnter(idx, n) == LoopCheck(idx + 1, n)

NextResumeSwallow(idx, n, err) == LoopCheck(idx + 1, n)

NextResumeNoAdvance(idx, n, err) ==
    IF err # NoErr
    THEN [index |-> idx, invoke |-> FALSE, ret |-> err]
    ELSE LoopCheck(idx, n)

\* Context.Next from the return of a handler it invoked (with err) to the next
\* handler invocation or its return.
NextResume(idx, n, err) ==
    IF err # NoErr
    THEN [index |-> idx, invoke |-> FALSE, ret |-> err]
    ELSE LoopCheck(idx + 1, n)

AbortIndexKeep(idx, n) == idx

AbortIndexLast(idx, n) == n - 1

\* Context.Abort: the index after the call.
AbortIndex(idx, n) == n

StringEffectNoAbort(idx, n, werr) == [index |-> idx, err |-> werr]

\* Context.String: the body is written (werr is what Write returned), then
\* Abort is called; the write's error is returned.
StringEffect(idx, n, werr) == [index |-> AbortIndex(idx, n), err |-> werr]

\* Context.NoContent: only the status is written; nil is returned.
NoContentEffect(idx, n) == [index |-> idx, err |-> NoErr]

\* Context.Reset: the index of a context made ready for a request.
ResetIndex == 0 - 1

\* Context.Handler (and the slot Context.SetHandler assigns): c.handlers[c.index],
\* the handler at position idx; indexing outside 0..n-1 panics.
Handler(idx, n) ==
    IF 0 <= idx /\ idx < n THEN [panic |-> FALSE, pos |-> idx]
    ELSE [panic |-> TRUE, pos |-> idx]

\* Context.data when it is nil: no map allocated.
NilData == [isNil |-> TRUE, items |-> <<>>]

\* make(map[string]interface{}).
MakeMap == [isNil |-> FALSE, items |-> <<>>]

\* Context.Get: c.data[name]; reading a nil map, or a name that is not in the
\* map, gives nil.
GetData(d, name) ==
    IF d.isNil THEN Nil
    ELSE IF name \in DOMAIN d.items THEN d.items[name]
    ELSE Nil

SetDataFresh(d, name, value) ==
    [isNil |-> FALSE, items |-> [k \in {name} |-> value]]

\* Context.Set: the map is allocated when it is nil, then the item is stored.
SetData(d, name, value) ==
    LET m == IF d.isNil THEN MakeMap ELSE d
    IN [m EXCEPT !.items = [k \in DOMAIN m.items \cup {name} |->
                               IF k = name THEN value ELSE m.items[k]]]

\* Context.SetStore: the map is allocated when it is nil, then every item of
\* store is copied into it.
SetStoreData(d, store) ==
    LET m == IF d.isNil THEN MakeMap ELSE d
    IN [m EXCEPT !.items = [k \in DOMAIN m.items \cup DOMAIN store |->
                               IF k \in DOMAIN store THEN store[k]
                               ELSE m.items[k]]]

\* Context.Param from position i on: the value at the first position whose
\* name is name, the empty string when there is none.
RECURSIVE ParamFrom(_, _, _, _)
ParamFrom(names, values, name, i) ==
    IF i > Len(names) THEN ""
    ELSE IF names[i] = name THEN values[i]
    ELSE ParamFrom(names, values, name, i + 1)

\* Context.Param.
Param(names, values, name) == ParamFrom(names, values, name, 1)

ResetFieldsKeepData(d, k, w, pn, pv) ==
    [data |-> d, ktx |-> Background, writer |-> DefaultDataWriter,
     pnames |-> pn, pvalues |-> pv, index |-> ResetIndex]

\* Context.Reset: the fields of the context after the call. Request and
\* Response are the arguments; data, ktx, index and writer are assigned;
\* pnames, pvalues and handlers are not.
ResetFields(d, k, w, pn, pv) ==
    [data |-> NilData, ktx |-> Background, writer |-> DefaultDataWriter,
     pnames |-> pn, pvalues |-> pv, index |-> ResetIndex]

\* ------------------------------------------------------------ bookkeeping

\* A fresh handler invocation at position pos.
Frame(pos) ==
    [pos |-> pos,
     ops |-> 0,              \* calls made so far
     nexts |-> 0,            \* Next calls made so far
     lastOp |-> "none",      \* the last call made
     last |-> NoErr,         \* the last error value a call returned
     lastFrom |-> "none",    \* the call that returned it
     nextRes |-> NoErr]      \* what the last Next call returned

EmptyHist ==
    [invoked |-> <<>>,          \* the positions invoked, in order
     depths |-> <<>>,           \* for each, how many handlers enclosed it
     abortedBy |-> {},          \* the positions whose handler called Abort
     stringBy |-> {},           \* ... called String
     noContentBy |-> {},        \* ... called NoContent
     afterAbort |-> {},         \* <<p, q>>: q was invoked after p called Abort
     afterString |-> {},
     afterNoContent |-> {},
     lastRet |-> [pos |-> 0 - 1, err |-> NoErr, via |-> "none",
                  index |-> 0 - 1, next |-> "none"],
     firstErr |-> NoErr,        \* the first non-nil error a handler returned
     errs |-> {},               \* every non-nil error a handler returned
     passThrough |-> TRUE,      \* every handler that called Next called it once
                                \* and returned its result
     stringOk |-> FALSE,        \* a handler returned the nil of its String call
     afterErr |-> FALSE,        \* a handler was invoked after a handler had
                                \* returned a non-nil error
     resumed |-> FALSE,         \* after such an error a handler called Next or
                                \* returned nil
     exhausted |-> FALSE,       \* a Next call ran out of handlers, or Abort was
                                \* called
     top |-> 0 - 1]             \* the highest value the index had

Top == stack[Len(stack)]

Running == phase = "running" /\ stack # <<>>

CanCall == Running /\ Top.ops < MaxOps

\* The stack with field updates applied to its innermost frame.
SetTop(s, f) == [s EXCEPT ![Len(s)] = f]

\* The history after the handler at position q is invoked under d enclosing
\* handlers.
NoteInvoke(h, q, d) ==
    [h EXCEPT !.invoked = Append(@, q),
              !.depths = Append(@, d),
              !.afterErr = @ \/ h.errs # {},
              !.afterAbort = @ \cup {<<p, q>> : p \in h.abortedBy},
              !.afterString = @ \cup {<<p, q>> : p \in h.stringBy},
              !.afterNoContent = @ \cup {<<p, q>> : p \in h.noContentBy}]

\* The history after the index has become idx; ex: a Next call has left its
\* loop at the end of the chain, or Abort was called.
NoteIndex(h, idx, ex) ==
    [h EXCEPT !.top = IF idx > @ THEN idx ELSE @,
              !.exhausted = @ \/ ex]

\* The caller of a Next call receives its result v: the handler below, or the
\* top level when s is empty.
Deliver(s, v) ==
    IF s = <<>> THEN s
    ELSE SetTop(s, [s[Len(s)] EXCEPT !.last = v, !.lastFrom = "Next",
                                     !.nextRes = v])

\* The parts of the state a specification does not use stay as they are here.
CtxIdle ==
    /\ handlers = 0
    /\ index = ResetIndex
    /\ stack = <<>>
    /\ phase = "idle"
    /\ result = NoErr
    /\ hist = EmptyHist

BLIdle ==
    /\ limit = 0
    /\ req = <<>>
    /\ readers = <<>>
    /\ pool = {}
    /\ out = {}

RdIdle ==
    /\ lr = [read |-> 0, limit |-> 0]
    /\ chunks = <<>>

\* No item has been Set in this request.
NoneSet == [k \in Keys |-> Nil]

\* No request came before.
NoPrev ==
    [reused |-> FALSE, data |-> NilData, ktx |-> Background,
     writer |-> DefaultDataWriter, index |-> ResetIndex, pnames |-> <<>>]

\* The store, writer, standard context and parameters of a new Context.
StoreIdle ==
    /\ data = NilData
    /\ ktx = Background
    /\ writer = DefaultDataWriter
    /\ pnames = <<>>
    /\ pvalues = <<>>
    /\ expect = NoneSet
    /\ prev = NoPrev
    /\ assigned = FALSE

LogIdle ==
    /\ ac = <<>>
    /\ logs = <<>>

IpIdle ==
    /\ ipReq = <<>>
    /\ ipRes = <<>>

\* ---------------------------------------------------------------- actions

Init ==
    /\ handlers \in 0..MaxHandlers
    /\ index = ResetIndex
    /\ stack = <<>>
    /\ phase = "ready"
    /\ result = NoErr
    /\ hist = EmptyHist
    /\ BLIdle
    /\ RdIdle
    /\ StoreIdle
    /\ LogIdle
    /\ IpIdle

\* c.Next() is called: by the top level once after Reset, or by the handler
\* that is executing.
Next ==
    /\ \/ phase = "ready"
       \/ CanCall
    /\ LET r == NextEnter(index, handlers)
           s == IF stack = <<>> THEN stack
                ELSE SetTop(stack, [Top EXCEPT !.ops = @ + 1, !.nexts = @ + 1,
                                               !.lastOp = "Next"])
           h == NoteIndex([hist EXCEPT !.resumed = @ \/ hist.errs # {}],
                          r.index, ~r.invoke)
       IN /\ index' = r.index
          /\ IF r.invoke
             THEN /\ stack' = Append(s, Frame(r.index))
                  /\ hist' = NoteInvoke(h, r.index, Len(stack))
                  /\ phase' = "running"
                  /\ UNCHANGED result
             ELSE /\ stack' = Deliver(s, r.ret)
                  /\ hist' = h
                  /\ phase' = IF stack = <<>> THEN "done" ELSE phase
                  /\ result' = IF stack = <<>> THEN r.ret ELSE result
    /\ prev' = IF phase = "ready" THEN NoPrev ELSE prev
    /\ UNCHANGED <<handlers, blVars, rdVars, logVars, ipVars>>
    /\ UNCHANGED <<data, ktx, writer, pnames, pvalues, expect, assigned>>

\* c.Abort() is called by the executing handler.
Abort ==
    /\ CanCall
    /\ index' = AbortIndex(index, handlers)
    /\ stack' = SetTop(stack, [Top EXCEPT !.ops = @ + 1, !.lastOp = "Abort"])
    /\ hist' = NoteIndex([hist EXCEPT !.abortedBy = @ \cup {Top.pos}],
                          index', TRUE)
    /\ UNCHANGED <<handlers, phase, result, blVars, rdVars, storeVars, logVars, ipVars>>

\* c.String(s) is called by the executing handler; the write succeeds or fails.
String ==
    /\ CanCall
    /\ \E werr \in {NoErr, ErrWrite} :
          LET r == StringEffect(index, handlers, werr)
          IN /\ index' = r.index
             /\ stack' = SetTop(stack, [Top EXCEPT !.ops = @ + 1,
                                                   !.lastOp = "String",
                                                   !.last = r.err,
                                                   !.lastFrom = "String"])
    /\ hist' = NoteIndex([hist EXCEPT !.stringBy = @ \cup {Top.pos}],
                          index', TRUE)
    /\ UNCHANGED <<handlers, phase, result, blVars, rdVars, storeVars, logVars, ipVars>>

\* c.NoContent() is called by the executing handler.
NoContent ==
    /\ CanCall
    /\ LET r == NoContentEffect(index, handlers)
       IN /\ index' = r.index
          /\ stack' = SetTop(stack, [Top EXCEPT !.ops = @ + 1,
                                                !.lastOp = "NoContent",
                                                !.last = r.err,
                                                !.lastFrom = "NoContent"])
    /\ hist' = [hist EXCEPT !.noContentBy = @ \cup {Top.pos}]
    /\ UNCHANGED <<handlers, phase, result, blVars, rdVars, storeVars, logVars, ipVars>>

\* The executing handler returns: nil, an error of its own, or the result of
\* its last call. The Next call that invoked it goes on from there: it returns
\* the error, invokes the following handler, or returns nil at the end of the
\* chain. hist.lastRet keeps what was returned (err), whether err was the
\* result of the handler's last call (via), the index at that moment, and what
\* the invoking Next did ("continue": it invoked the following handler;
\* otherwise the value it returned).
Return ==
    /\ Running
    /\ \E e \in {NoErr, ErrOf(Top.pos), Top.last} :
          LET f == Top
              below == SubSeq(stack, 1, Len(stack) - 1)
              r == NextResume(index, handlers, e)
              h1 == [hist EXCEPT
                       !.lastRet = [pos |-> f.pos, err |-> e,
                                    via |-> IF e = f.last THEN f.lastFrom
                                            ELSE "none",
                                    index |-> index,
                                    next |-> IF r.invoke THEN "continue"
                                             ELSE r.ret],
                       !.firstErr = IF @ = NoErr THEN e ELSE @,
                       !.errs = IF e = NoErr THEN @ ELSE @ \cup {e},
                       !.passThrough = @ /\ (f.nexts >= 1 =>
                                               f.nexts = 1 /\ e = f.nextRes),
                       !.stringOk = @ \/ (f.lastFrom = "String" /\ e = f.last
                                          /\ e = NoErr),
                       !.resumed = @ \/ (hist.errs # {} /\ e = NoErr)]
              h2 == NoteIndex(h1, r.index, ~r.invoke /\ r.ret = NoErr)
          IN /\ index' = r.index
             /\ IF r.invoke
                THEN /\ stack' = Append(below, Frame(r.index))
                     /\ hist' = NoteInvoke(h2, r.index, Len(below))
                     /\ UNCHANGED <<phase, result>>
                ELSE /\ stack' = Deliver(below, r.ret)
                     /\ hist' = h2
                     /\ phase' = IF below = <<>> THEN "done" ELSE phase
                     /\ result' = IF below = <<>> THEN r.ret ELSE result
    /\ UNCHANGED <<handlers, blVars, rdVars, storeVars, logVars, ipVars>>

\* c.Reset(res, req): the context is made ready for the next request. prev
\* keeps what the request before left in the fields.
Reset ==
    /\ phase = "done"
    /\ LET c == ResetFields(data, ktx, writer, pnames, pvalues)
       IN /\ index' = c.index
          /\ data' = c.data
          /\ ktx' = c.ktx
          /\ writer' = c.writer
          /\ pnames' = c.pnames
          /\ pvalues' = c.pvalues
    /\ stack' = <<>>
    /\ phase' = "ready"
    /\ result' = NoErr
    /\ hist' = EmptyHist
    /\ expect' = NoneSet
    /\ prev' = [reused |-> TRUE, data |-> data, ktx |-> ktx,
                writer |-> writer, index |-> index, pnames |-> pnames]
    /\ assigned' = FALSE
    /\ UNCHANGED <<handlers, blVars, rdVars, logVars, ipVars>>

ChainStep == Next \/ Abort \/ String \/ NoContent \/ Return \/ Reset

Spec == Init /\ [][ChainStep]_vars

\* ------------------------------------------- Context (store and parameters)

\* The executing handler makes a call that leaves the chain as it is.
Called(op) ==
    /\ stack' = SetTop(stack, [Top EXCEPT !.ops = @ + 1, !.lastOp = op])
    /\ UNCHANGED <<handlers, index, phase, result, hist>>

\* c.Set(name, value) is called by the executing handler.
Set ==
    /\ CanCall
    /\ \E name \in Keys, value \in Values :
          /\ data' = SetData(data, name, value)
          /\ expect' = [expect EXCEPT ![name] = value]
    /\ Called("Set")
    /\ UNCHANGED <<ktx, writer, pnames, pvalues, prev, assigned>>
    /\ UNCHANGED <<blVars, rdVars, logVars, ipVars>>

\* c.SetStore(store) is called by the executing handler, with a map of one
\* item or of an item for every key.
SetStore ==
    /\ CanCall
    /\ \E ks \in {{k} : k \in Keys} \cup {Keys}, value \in Values :
          /\ data' = SetStoreData(data, [k \in ks |-> value])
          /\ expect' = [k \in Keys |-> IF k \in ks THEN value ELSE expect[k]]
    /\ Called("SetStore")
    /\ UNCHANGED <<ktx, writer, pnames, pvalues, prev, assigned>>
    /\ UNCHANGED <<blVars, rdVars, logVars, ipVars>>

\* c.SetDataWriter(writer) is called by the executing handler.
SetDataWriter ==
    /\ CanCall
    /\ writer' = CustomDataWriter
    /\ Called("SetDataWriter")
    /\ UNCHANGED <<data, ktx, pnames, pvalues, expect, prev, assigned>>
    /\ UNCHANGED <<blVars, rdVars, logVars, ipVars>>

\* c.SetKontext(ktx) is called by the executing handler.
SetKontext ==
    /\ CanCall
    /\ \E k \in Kontexts : ktx' = k
    /\ Called("SetKontext")
    /\ UNCHANGED <<data, writer, pnames, pvalues, expect, prev, assigned>>
    /\ UNCHANGED <<blVars, rdVars, logVars, ipVars>>

\* The router, having matched the path of the request, assigns the parameter
\* names and values of the route to the context that was Reset for it.
AssignParams ==
    /\ phase = "ready"
    /\ ~assigned
    /\ \E r \in Routes :
          /\ pnames' = r.names
          /\ pvalues' = r.values
    /\ assigned' = TRUE
    /\ UNCHANGED <<data, ktx, writer, expect, prev>>
    /\ UNCHANGED <<ctxVars, blVars, rdVars, logVars, ipVars>>

StoreStep == Set \/ SetStore \/ SetDataWriter \/ SetKontext \/ AssignParams

SpecCtx == Init /\ [][ChainStep \/ StoreStep]_vars

\* ------------------------------------------------- blimit (pure functions)

LimitedReadAtLimit(read, lim, n, uerr) ==
    [read |-> read + n, n |-> n,
     err |-> IF read + n >= lim THEN ErrTooLarge ELSE uerr]

\* limitedReader.Read: the underlying stream returned (n, uerr); the counter
\* grows by n and the too-large error replaces uerr once it exceeds the limit.
LimitedRead(read, lim, n, uerr) ==
    [read |-> read + n, n |-> n,
     err |-> IF read + n > lim THEN ErrTooLarge ELSE uerr]

\* limitedReader.Reset(reader, context): the two fields it assigns.
ReaderReset(rd, reader, context) ==
    [rd EXCEPT !.reader = reader, !.context = context]

\* The pool's New: a limitedReader holding only the config.
NewReader == [reader |-> 0, context |-> 0, read |-> 0]

BodyLimitEntryAtLimit(skip, cl, lim) ==
    IF skip THEN "skip"
    ELSE IF cl >= lim THEN "reject"
    ELSE "wrap"

BodyLimitEntryLengthFirst(skip, cl, lim) ==
    IF cl > lim THEN "reject"
    ELSE IF skip THEN "skip"
    ELSE "wrap"

\* The way the body-limit handler takes: the skipper fires and it only calls
\* Next; the declared Content-Length exceeds the limit and it returns the
\* too-large error; or it wraps the body in a pooled reader and calls Next.
BodyLimitEntry(skip, cl, lim) ==
    IF skip THEN "skip"
    ELSE IF cl > lim THEN "reject"
    ELSE "wrap"

\* pool.Get(): the readers it may hand out, one sitting in the pool or one that
\* New allocates (identified by the next free number).
PoolGet(p, rds) ==
    p \cup (IF Len(rds) < NumRequests THEN {Len(rds) + 1} ELSE {})

PutOnSuccessOnly(p, r, err) == IF err = NoErr THEN p \cup {r} ELSE p

\* defer pool.Put(r): the pool after the body-limit handler that holds r
\* returns err.
DeferredPut(p, r, err) == p \cup {r}

\* What a Read on the raw body stream of a request may return when the stream
\* still holds rem bytes.
RawRead(rem) ==
    {[n |-> k, err |-> NoErr] : k \in 1..rem}
        \cup (IF rem = 0 THEN {[n |-> 0, err |-> ErrEOF]} ELSE {})

\* ------------------------------------------------------- blimit (requests)

Reqs == 1..NumRequests

\* The chain every request runs: a handler before the body-limit middleware
\* that calls Next and then goes on (as an access logger does), the body-limit
\* handler, and a handler after it that reads the body.
BLChain == <<"pre", "limit", "down">>

NoPend == [on |-> FALSE, r |-> 0, read |-> 0, err |-> NoErr, n |-> 0]

\* A fresh invocation of the handler at position pos of BLChain.
BLFrame(pos) ==
    [kind |-> BLChain[pos + 1],
     pc |-> "entry",     \* "entry"; "called": inside its Next call; "after"
     ops |-> 0,          \* Read and Abort calls made so far
     last |-> "none",    \* what its last Read call returned
     got |-> "none",     \* what its Next call returned
     r |-> 0,            \* body-limit: the reader it checked out (0: none)
     pend |-> NoPend]    \* a limitedReader.Read between its underlying read
                         \* and the update of the counter

EmptyObs ==
    [entry |-> "none",     \* the way the body-limit handler took
     nexts |-> 0,          \* Next calls the body-limit handler made
     gets |-> 0,           \* pool.Get calls it made
     puts |-> 0,           \* pool.Put calls it made
     nextRet |-> "none",   \* what its Next call returned
     limitRet |-> "none",  \* what it returned
     rawRead |-> FALSE]    \* a Read call has reached this request's raw body

IdleReq ==
    [st |-> "idle",        \* "idle", "running" (in flight), "done"
     skip |-> FALSE,       \* what config.Skipper(c) returns
     cl |-> 0,             \* Request.ContentLength (-1: unknown)
     size |-> 0,           \* the length of the body the client sends
     remaining |-> 0,      \* bytes left in the raw body stream
     body |-> 0,           \* Request.Body: 0 the raw stream, r > 0 limitedReader r
     index |-> ResetIndex, \* Context.index
     stack |-> <<>>,       \* the handler invocations in progress
     result |-> NoErr,     \* what the top-level Next returned
     obs |-> EmptyObs]

BLTop(t) == req[t].stack[Len(req[t].stack)]

BLAt(t, kind, pc) ==
    /\ req[t].st = "running"
    /\ req[t].stack # <<>>
    /\ BLTop(t).kind = kind
    /\ BLTop(t).pc = pc
    /\ ~BLTop(t).pend.on

\* The request rq after a Next call has produced r (of NextEnter or
\* NextResume) with the invocations in below still in progress: the next
\* handler is invoked, or Next returns to its caller, the innermost handler of
\* below or the top level. With the top-level Next returned the request is
\* over: its body is closed and only the result is kept.
AfterNext(rq, below, r) ==
    IF r.invoke
    THEN [rq EXCEPT !.index = r.index,
                    !.stack = Append(below, BLFrame(r.index))]
    ELSE IF below = <<>>
    THEN [IdleReq EXCEPT !.st = "done", !.index = r.index, !.result = r.ret]
    ELSE [rq EXCEPT !.index = r.index,
                    !.stack = [below EXCEPT ![Len(below)].pc = "after",
                                            ![Len(below)].got = r.ret],
                    !.obs.nextRet = IF below[Len(below)].kind = "limit"
                                    THEN r.ret ELSE @]

\* The executing handler of rq calls Next.
CallNext(rq) ==
    AfterNext([rq EXCEPT !.obs.nexts = IF rq.stack[Len(rq.stack)].kind = "limit"
                                       THEN @ + 1 ELSE @],
              [rq.stack EXCEPT ![Len(rq.stack)].pc = "called"],
              NextEnter(rq.index, Len(BLChain)))

\* The executing handler of rq returns e.
ReturnFrom(rq, e) ==
    AfterNext(rq, SubSeq(rq.stack, 1, Len(rq.stack) - 1),
              NextResume(rq.index, Len(BLChain), e))

InitBL ==
    /\ CtxIdle
    /\ RdIdle
    /\ StoreIdle
    /\ LogIdle
    /\ IpIdle
    /\ limit \in 1..MaxLimit
    /\ req = [t \in Reqs |-> IdleReq]
    /\ readers = <<>>
    /\ pool = {}
    /\ out = {}

\* A request arrives: its Context is Reset and the top-level Next invokes the
\* first handler. A declared Content-Length is the length of the body; a body
\* of undeclared length (-1) is one byte longer than the limit.
Serve(t) ==
    /\ req[t].st = "idle"
    /\ \E skip \in BOOLEAN, cl \in (0 - 1)..(limit + 1) :
          LET size == IF cl >= 0 THEN cl ELSE limit + 1
          IN req' = [req EXCEPT ![t] =
                AfterNext([IdleReq EXCEPT !.st = "running", !.skip = skip,
                                          !.cl = cl, !.size = size,
                                          !.remaining = size],
                          <<>>, NextEnter(ResetIndex, Len(BLChain)))]
    /\ UNCHANGED <<limit, readers, pool, out, ctxVars, rdVars, storeVars, logVars, ipVars>>

\* The handler before the body-limit middleware calls Next.
PreNext(t) ==
    /\ BLAt(t, "pre", "entry")
    /\ req' = [req EXCEPT ![t] = CallNext(@)]
    /\ UNCHANGED <<limit, readers, pool, out, ctxVars, rdVars, storeVars, logVars, ipVars>>

\* The body-limit handler runs from its entry to its Next call, or to its
\* return when the declared length is too large.
BodyLimit(t) ==
    /\ BLAt(t, "limit", "entry")
    /\ LET way == BodyLimitEntry(req[t].skip, req[t].cl, limit)
           rq == [req[t] EXCEPT !.obs.entry = way]
       IN CASE way = "skip" ->
                 /\ req' = [req EXCEPT ![t] = CallNext(rq)]
                 /\ UNCHANGED <<readers, pool, out>>
            [] way = "reject" ->
                 /\ req' = [req EXCEPT ![t] =
                       ReturnFrom([rq EXCEPT !.obs.limitRet = ErrTooLarge],
                                  ErrTooLarge)]
                 /\ UNCHANGED <<readers, pool, out>>
            [] way = "wrap" ->
                 \E r \in PoolGet(pool, readers) :
                    LET rds == IF r > Len(readers)
                               THEN Append(readers, NewReader) ELSE readers
                    IN /\ readers' = [rds EXCEPT ![r] = ReaderReset(@, t, t)]
                       /\ pool' = pool \ {r}
                       /\ out' = out \cup {r}
                       /\ req' = [req EXCEPT ![t] =
                             CallNext([rq EXCEPT
                                 !.body = r,
                                 !.obs.gets = @ + 1,
                                 !.stack[Len(rq.stack)].r = r])]
    /\ UNCHANGED <<limit, ctxVars, rdVars, storeVars, logVars, ipVars>>

\* The handlers that read the body: the one after the body-limit middleware,
\* and the one before it once its Next call has returned.
Reading(t) ==
    \/ BLAt(t, "down", "entry")
    \/ BLAt(t, "pre", "after")

\* The executing handler calls Request.Body.Read. On the raw stream the call is
\* complete. On a limitedReader this is the first half of Read: the underlying
\* stream (the one the reader was last Reset to) is read and the counter is
\* loaded.
ReadBody(t) ==
    /\ Reading(t)
    /\ BLTop(t).ops < MaxOps
    /\ LET b == req[t].body
           q == IF b = 0 THEN t ELSE readers[b].reader
           k == Len(req[t].stack)
       IN \E u \in RawRead(req[q].remaining) :
             LET lrd == LimitedRead(readers[b].read, limit, u.n, u.err)
                 rq1 == [req EXCEPT ![q].remaining = @ - u.n,
                                    ![q].obs.rawRead = TRUE]
             IN req' =
                  IF b = 0
                  THEN [rq1 EXCEPT ![t].stack[k].ops = @ + 1,
                                   ![t].stack[k].last = u.err]
                  ELSE [rq1 EXCEPT ![t].stack[k].ops = @ + 1,
                                   ![t].stack[k].pend =
                                        [on |-> TRUE, r |-> b, read |-> lrd.read,
                                         err |-> lrd.err, n |-> lrd.n]]
    /\ UNCHANGED <<limit, readers, pool, out, ctxVars, rdVars, storeVars, logVars, ipVars>>

\* The second half of limitedReader.Read: the counter is stored and the call
\* returns.
ReadCount(t) ==
    /\ req[t].st = "running"
    /\ req[t].stack # <<>>
    /\ BLTop(t).pend.on
    /\ LET pd == BLTop(t).pend
           k == Len(req[t].stack)
       IN /\ readers' = [readers EXCEPT ![pd.r].read = pd.read]
          /\ req' = [req EXCEPT ![t].stack[k].pend = NoPend,
                                ![t].stack[k].last = pd.err]
    /\ UNCHANGED <<limit, pool, out, ctxVars, rdVars, storeVars, logVars, ipVars>>

\* The handler after the body-limit middleware calls Abort.
DownAbort(t) ==
    /\ BLAt(t, "down", "entry")
    /\ BLTop(t).ops < MaxOps
    /\ req' = [req EXCEPT ![t].index = AbortIndex(@, Len(BLChain)),
                          ![t].stack[Len(req[t].stack)].ops = @ + 1]
    /\ UNCHANGED <<limit, readers, pool, out, ctxVars, rdVars, storeVars, logVars, ipVars>>

\* The handler after the body-limit middleware returns: nil, an error of its
\* own, or the error of its last Read.
DownReturn(t) ==
    /\ BLAt(t, "down", "entry")
    /\ \E e \in {NoErr, ErrDown, BLTop(t).last} \ {"none"} :
          req' = [req EXCEPT ![t] = ReturnFrom(@, e)]
    /\ UNCHANGED <<limit, readers, pool, out, ctxVars, rdVars, storeVars, logVars, ipVars>>

\* The body-limit handler returns what its Next call returned; the deferred
\* pool.Put runs when it had checked a reader out.
BodyLimitReturn(t) ==
    /\ BLAt(t, "limit", "after")
    /\ LET f == BLTop(t)
           rq == [req[t] EXCEPT !.obs.limitRet = f.got,
                                !.obs.puts = IF f.r # 0 THEN @ + 1 ELSE @]
       IN /\ req' = [req EXCEPT ![t] = ReturnFrom(rq, f.got)]
          /\ pool' = IF f.r # 0 THEN DeferredPut(pool, f.r, f.got) ELSE pool
          /\ out' = IF f.r # 0 THEN out \ (pool' \cap {f.r}) ELSE out
    /\ UNCHANGED <<limit, readers, ctxVars, rdVars, storeVars, logVars, ipVars>>

\* The handler before the body-limit middleware returns what its Next call
\* returned.
PreReturn(t) ==
    /\ BLAt(t, "pre", "after")
    /\ req' = [req EXCEPT ![t] = ReturnFrom(@, BLTop(t).got)]
    /\ UNCHANGED <<limit, readers, pool, out, ctxVars, rdVars, storeVars, logVars, ipVars>>

BLStep ==
    \E t \in Reqs :
        \/ Serve(t)
        \/ PreNext(t)
        \/ BodyLimit(t)
        \/ ReadBody(t)
        \/ ReadCount(t)
        \/ DownAbort(t)
        \/ DownReturn(t)
        \/ BodyLimitReturn(t)
        \/ PreReturn(t)

SpecBL == InitBL /\ [][BLStep]_vars

\* ------------------------------------------------- access (pure functions)

\* The LogResponseWriter CustomLogger builds after its Next call returned:
\* &LogResponseWriter{c.Response, c.Response.Status, 0}.
LogWriter(response) == [Status |-> response.Status, BytesWritten |-> 0]

LoggerReturnNil(err) == NoErr

\* What the handler of CustomLogger returns, err being what its Next call
\* returned.
LoggerReturn(err) == err

\* --------------------------------------------------------- access (chain)

\* A fresh invocation of the handler at position pos of a chain whose access
\* logger is at position lp.
LogFrame(pos, lp) ==
    [pos |-> pos,
     kind |-> IF pos = lp THEN "log" ELSE "h",
     pc |-> "entry",     \* "entry"; "called": inside a Next call; "after"
     ops |-> 0,          \* calls made so far
     got |-> "none"]     \* what its last Next call returned

\* A Context with n handlers, the access logger at position lp, made ready
\* for a request, and the Response of that request.
ReadyCtx(n, lp) ==
    [n |-> n, lp |-> lp,
     st |-> "ready",      \* "ready", "running", "done"
     index |-> ResetIndex,
     stack |-> <<>>,
     result |-> NoErr,    \* what the top-level Next returned
     response |-> [Status |-> 0, written |-> 0],
     down |-> 0,          \* bytes written while the logger's Next call ran
     late |-> FALSE,      \* a handler was invoked after the log was emitted
     nextRet |-> "none",  \* what the logger's Next call returned
     logRet |-> "none"]   \* what the logger returned

LogTop == ac.stack[Len(ac.stack)]

\* The handler of kind kind is executing and may make a call.
LogAt(kind) ==
    /\ ac.st = "running"
    /\ ac.stack # <<>>
    /\ LogTop.kind = kind

\* The positions in the stack of the logger invocations in progress.
LoggerFrames(a) == {k \in 1..Len(a.stack) : a.stack[k].kind = "log"}

\* The context a after a Next call has produced r (of NextEnter or
\* NextResume) with the invocations in below still in progress.
LogAfterNext(a, below, r) ==
    IF r.invoke
    THEN [a EXCEPT !.index = r.index,
                   !.stack = Append(below, LogFrame(r.index, a.lp)),
                   !.late = @ \/ a.logRet # "none"]
    ELSE IF below = <<>>
    THEN [a EXCEPT !.index = r.index, !.stack = below, !.st = "done",
                   !.result = r.ret]
    ELSE [a EXCEPT !.index = r.index,
                   !.stack = [below EXCEPT ![Len(below)].pc = "after",
                                           ![Len(below)].got = r.ret],
                   !.nextRet = IF below[Len(below)].kind = "log"
                               THEN r.ret ELSE @]

\* The executing handler of a calls Next.
LogCallNext(a) ==
    LogAfterNext(a, [a.stack EXCEPT ![Len(a.stack)].pc = "called",
                                    ![Len(a.stack)].ops = @ + 1],
                 NextEnter(a.index, a.n))

\* The executing handler of a returns e.
LogReturnFrom(a, e) ==
    LogAfterNext(a, SubSeq(a.stack, 1, Len(a.stack) - 1),
                 NextResume(a.index, a.n, e))

\* The response after k more bytes were written to it by the executing
\* handler of a.
Written(a, k) ==
    [a EXCEPT !.response.written = @ + k,
              !.down = IF LoggerFrames(a) # {} THEN @ + k ELSE @,
              !.stack[Len(a.stack)].ops = @ + 1]

InitLog ==
    /\ CtxIdle
    /\ BLIdle
    /\ RdIdle
    /\ StoreIdle
    /\ IpIdle
    /\ \E n \in 1..MaxLogChain, lp \in 0..(MaxLogChain - 1) :
          /\ lp < n
          /\ ac = ReadyCtx(n, lp)
    /\ logs = <<>>

\* The top-level Next call of a request.
LogServe ==
    /\ ac.st = "ready"
    /\ ac' = LogAfterNext([ac EXCEPT !.st = "running"], <<>>,
                          NextEnter(ac.index, ac.n))
    /\ UNCHANGED <<logs, ctxVars, blVars, rdVars, storeVars, ipVars>>

\* A handler other than the logger calls Next.
HNext ==
    /\ LogAt("h")
    /\ LogTop.ops < MaxOps
    /\ ac' = LogCallNext(ac)
    /\ UNCHANGED <<logs, ctxVars, blVars, rdVars, storeVars, ipVars>>

\* A handler other than the logger calls c.Write(data), data being k bytes.
HWrite ==
    /\ LogAt("h")
    /\ LogTop.ops < MaxOps
    /\ \E k \in 1..MaxWrite : ac' = Written(ac, k)
    /\ UNCHANGED <<logs, ctxVars, blVars, rdVars, storeVars, ipVars>>

\* A handler other than the logger calls c.String(s), s being k bytes: the
\* status is written, the body is written, the chain is aborted.
HString ==
    /\ LogAt("h")
    /\ LogTop.ops < MaxOps
    /\ \E k \in 1..MaxWrite :
          ac' = [Written(ac, k) EXCEPT
                    !.response.Status = StatusOK,
                    !.index = StringEffect(ac.index, ac.n, NoErr).index]
    /\ UNCHANGED <<logs, ctxVars, blVars, rdVars, storeVars, ipVars>>

\* A handler other than the logger returns: nil, an error of its own, or
\* what its last Next call returned.
HReturn ==
    /\ LogAt("h")
    /\ \E e \in {NoErr, ErrOf(LogTop.pos), LogTop.got} \ {"none"} :
          ac' = LogReturnFrom(ac, e)
    /\ UNCHANGED <<logs, ctxVars, blVars, rdVars, storeVars, ipVars>>

\* The logger is invoked: it takes the start time and the request and calls
\* Next.
LoggerNext ==
    /\ LogAt("log")
    /\ LogTop.pc = "entry"
    /\ ac' = LogCallNext(ac)
    /\ UNCHANGED <<logs, ctxVars, blVars, rdVars, storeVars, ipVars>>

\* The logger goes on after its Next call returned err: it builds the
\* LogResponseWriter, calls loggerFunc and returns err. above: the handlers
\* its Next call invoked that are still executing; down: the bytes written to
\* the response while its Next call ran.
LoggerLog ==
    /\ LogAt("log")
    /\ LogTop.pc = "after"
    /\ LET err == LogTop.got
           ret == LoggerReturn(err)
       IN /\ logs' = Append(logs,
                           [rw |-> LogWriter(ac.response),
                            err |-> err,
                            above |-> Len(ac.stack)
                                        - CHOOSE k \in LoggerFrames(ac) : TRUE,
                            down |-> ac.down])
          /\ ac' = LogReturnFrom([ac EXCEPT !.logRet = ret], ret)
    /\ UNCHANGED <<ctxVars, blVars, rdVars, storeVars, ipVars>>

\* c.Reset(res, req): the context is made ready for the next request, which
\* gets a Response of its own.
LogReset ==
    /\ ac.st = "done"
    /\ ac' = ReadyCtx(ac.n, ac.lp)
    /\ logs' = <<>>
    /\ UNCHANGED <<ctxVars, blVars, rdVars, storeVars, ipVars>>

LogStep ==
    \/ LogServe
    \/ HNext
    \/ HWrite
    \/ HString
    \/ HReturn
    \/ LoggerNext
    \/ LoggerLog
    \/ LogReset

SpecLog == InitLog /\ [][LogStep]_vars

\* ------------------------------------------------------ access (client IP)

\* Strings are sequences of characters. The values an X-Real-IP or
\* X-Forwarded-For header has: absent (""), "1.2" and "3.4" (standing for IPv4
\* addresses), "::1" (an IPv6 address).
HeaderValues ==
    {<<>>, <<"1", ".", "2">>, <<"3", ".", "4">>, <<":", ":", "1">>}

\* The peers a request comes from, as host and port (<<>>: no port):
\* "5.6:80", "5.6", "[::1]:80" and "::1".
Peers ==
    {[host |-> <<"5", ".", "6">>, port |-> <<"8", "0">>],
     [host |-> <<"5", ".", "6">>, port |-> <<>>],
     [host |-> <<"[", ":", ":", "1", "]">>, port |-> <<"8", "0">>],
     [host |-> <<":", ":", "1">>, port |-> <<>>]}

\* Request.RemoteAddr of a request from peer: host:port, or the host alone.
RemoteAddr(peer) ==
    IF peer.port = <<>> THEN peer.host ELSE peer.host \o <<":">> \o peer.port

\* strings.LastIndex(str, ch) searching from position i down, counting
\* positions from 1: 0 when ch does not occur (Go: -1, counting from 0).
RECURSIVE LastIndexFrom(_, _, _)
LastIndexFrom(str, ch, i) ==
    IF i = 0 THEN 0
    ELSE IF str[i] = ch THEN i
    ELSE LastIndexFrom(str, ch, i - 1)

LastIndex(str, ch) == LastIndexFrom(str, ch, Len(str))

\* GetClientIP(req): the X-Real-IP header, else the X-Forwarded-For header,
\* else RemoteAddr; whichever it is, cut before its last ":" when it has one.
GetClientIP(r) ==
    LET ip == IF r.xRealIP # <<>> THEN r.xRealIP
              ELSE IF r.xForwardedFor # <<>> THEN r.xForwardedFor
              ELSE r.remoteAddr
        colon == LastIndex(ip, ":")
    IN IF colon # 0 THEN SubSeq(ip, 1, colon - 1) ELSE ip

InitIP ==
    /\ CtxIdle
    /\ BLIdle
    /\ RdIdle
    /\ StoreIdle
    /\ LogIdle
    /\ \E x \in HeaderValues, f \in HeaderValues, peer \in Peers :
          ipReq = [xRealIP |-> x, xForwardedFor |-> f,
                   remoteAddr |-> RemoteAddr(peer), peer |-> peer]
    /\ ipRes = [called |-> FALSE, ip |-> <<>>]

\* Logger's callback resolves the client address of the request.
LoggerClientIP ==
    /\ ~ipRes.called
    /\ ipRes' = [called |-> TRUE, ip |-> GetClientIP(ipReq)]
    /\ UNCHANGED <<ipReq, ctxVars, blVars, rdVars, storeVars, logVars>>

SpecIP == InitIP /\ [][LoggerClientIP]_vars

\* ------------------------------------------------ blimit (one limitedReader)

\* The bytes of the first k Read calls.
RECURSIVE CumBytes(_, _)
CumBytes(cs, k) == IF k = 0 THEN 0 ELSE CumBytes(cs, k - 1) + cs[k].n

InitRead ==
    /\ CtxIdle
    /\ BLIdle
    /\ StoreIdle
    /\ LogIdle
    /\ IpIdle
    /\ lr \in [read : {0}, limit : 0..MaxReadLimit]
    /\ chunks = <<>>

\* r.Read(b) on the reader under test; the underlying stream returns any chunk
\* up to MaxReadLimit + 1 bytes, with or without io.EOF.
Read ==
    /\ Len(chunks) < MaxReads
    /\ \E n \in 0..(MaxReadLimit + 1), uerr \in {NoErr, ErrEOF} :
          LET r == LimitedRead(lr.read, lr.limit, n, uerr)
          IN /\ lr' = [lr EXCEPT !.read = r.read]
             /\ chunks' = Append(chunks, [n |-> r.n, err |-> r.err, uerr |-> uerr])
    /\ UNCHANGED <<ctxVars, blVars, storeVars, logVars, ipVars>>

SpecRead == InitRead /\ [][Read]_vars

\* ------------------------------------------------------- claims on Context

\* C1: within one request every handler position is invoked at most once and
\* the invocations occur in strictly increasing position order, whatever
\* nested or repeated Next and Abort calls the handlers make.
C1_OnceInOrder ==
    \A i, j \in 1..Len(hist.invoked) :
        i < j => hist.invoked[i] < hist.invoked[j]

\* The whole chain has run although the first handler called Next twice (the
\* handler its first Next invoked returned an error) and the last handler
\* called Abort.
C1_Witness ==
    /\ handlers = 3
    /\ hist.invoked = <<0, 1, 2>>
    /\ Len(stack) = 2
    /\ stack[1].nexts = 2
    /\ 2 \in hist.abortedBy

\* C2: once a handler has called Abort, no handler at a position greater than
\* the aborting handler's is invoked in that request, also when Next is called
\* again afterwards.
C2_NoneAfterAbort ==
    \A pq \in hist.afterAbort : pq[2] <= pq[1]

\* The handler at position 1 of 3, invoked by the Next call of handler 0, has
\* called Abort and then Next again: position 2 was not invoked.
C2_Witness ==
    /\ handlers = 3
    /\ Len(stack) = 2
    /\ Top.pos = 1
    /\ 1 \in hist.abortedBy
    /\ Top.lastOp = "Next"
    /\ Top.ops = 2
    /\ hist.invoked = <<0, 1>>
    /\ index > handlers

\* C3: when a handler returns a non-nil error e, the Next call that invoked it
\* returns exactly e and invokes no further handler; and when every handler
\* that called Next returns the result of that call unchanged, the top-level
\* Next returns e, the first (and then only) error a handler returned.
C3_ErrorPropagates ==
    /\ hist.lastRet.err # NoErr => hist.lastRet.next = hist.lastRet.err
    /\ (phase = "done" /\ hist.passThrough /\ hist.firstErr # NoErr) =>
           /\ result = hist.firstErr
           /\ hist.errs = {result}

\* The innermost of three nested handlers returned an error of its own, the
\* two enclosing handlers passed it on, and the top-level Next returned it.
C3_Witness ==
    /\ phase = "done"
    /\ hist.invoked = <<0, 1, 2>>
    /\ hist.depths = <<0, 1, 2>>
    /\ hist.passThrough
    /\ hist.firstErr = ErrOf(2)
    /\ result = ErrOf(2)

\* C4: a handler that calls String has aborted the chain: on return from
\* String the index is len(handlers) whether or not the write failed, no
\* handler at a greater position is invoked afterwards, and when the write
\* succeeded and the handler returns String's result, the Next call that
\* invoked it returns nil, and so does the top-level Next when every enclosing
\* handler returns the result of its Next call.
C4_StringEndsChain ==
    /\ (Running /\ Top.lastOp = "String") => index = handlers
    /\ \A pq \in hist.afterString : pq[2] <= pq[1]
    /\ (hist.lastRet.via = "String" /\ hist.lastRet.err = NoErr) =>
           hist.lastRet.next = NoErr
    /\ (phase = "done" /\ hist.stringOk /\ hist.passThrough) => result = NoErr

\* The chain [A, B, C]: A called Next, B called String and returned its nil,
\* A returned what Next returned; A and B ran, C did not, no error came back.
C4_Witness ==
    /\ handlers = 3
    /\ phase = "done"
    /\ hist.invoked = <<0, 1>>
    /\ hist.depths = <<0, 1>>
    /\ hist.stringBy = {1}
    /\ hist.stringOk
    /\ hist.passThrough
    /\ result = NoErr

\* C5: NoContent ends the chain like String does: when the handler that
\* called NoContent returns its nil the index is len(handlers), and no handler
\* at a greater position is invoked afterwards.
C5_NoContentEndsChain ==
    /\ (hist.lastRet.via = "NoContent" /\ hist.lastRet.err = NoErr) =>
           hist.lastRet.index = handlers
    /\ \A pq \in hist.afterNoContent : pq[2] <= pq[1]

\* -------------------------------------------------------- claims on blimit

\* The body-limit handler invocation of request t that has not returned yet.
LimitFrames(t) ==
    {k \in 1..Len(req[t].stack) : req[t].stack[k].kind = "limit"}

InFlight(t) == req[t].st = "running"

\* C6: a limitedReader that the middleware has checked out, Reset and
\* installed for a request has its counter at 0 before the request's first
\* Read; hence a Read of the request fails with the too-large error exactly
\* when the bytes this request has read exceed the limit, whatever earlier
\* requests read through the same pooled reader. Stated for requests served
\* one after the other: no other request is in flight.
C6_CounterZeroOnReuse ==
    \A t \in Reqs :
        (/\ BLAt(t, "down", "entry")
         /\ req[t].body # 0
         /\ \A u \in Reqs \ {t} : ~InFlight(u)) =>
            /\ BLTop(t).ops = 0 => readers[req[t].body].read = 0
            /\ BLTop(t).last # "none" =>
                   (BLTop(t).last = ErrTooLarge
                        <=> req[t].size - req[t].remaining > limit)

\* C7: with the counter starting at 0, a Read returns without the too-large
\* error (it returns what the underlying stream returned) exactly when the
\* bytes read up to and including it are at most the limit, wherever the chunk
\* boundaries fall; the counter is the sum of the chunks.
C7_ReadWithinLimit ==
    /\ lr.read = CumBytes(chunks, Len(chunks))
    /\ \A k \in 1..Len(chunks) :
          /\ chunks[k].err # ErrTooLarge <=> CumBytes(chunks, k) <= lr.limit
          /\ chunks[k].err # ErrTooLarge => chunks[k].err = chunks[k].uerr

\* Limit 2, chunks of 1, 1 and 1 byte: the Read reaching exactly 2 succeeds,
\* the one passing it fails.
C7_Witness ==
    /\ lr.limit = 2
    /\ Len(chunks) = 3
    /\ \A k \in 1..3 : chunks[k].n = 1
    /\ chunks[2].err = NoErr
    /\ chunks[3].err = ErrTooLarge

\* C8: no limitedReader is Request.Body of two requests in flight at once, and
\* no request in flight still has as its Request.Body a reader that is back in
\* the pool, also after the body-limit handler has returned to the handlers
\* before it.
C8_ExclusiveReader ==
    \A t \in Reqs :
        (InFlight(t) /\ req[t].body # 0) =>
            /\ req[t].body \notin pool
            /\ \A u \in Reqs \ {t} : InFlight(u) => req[u].body # req[t].body

\* C9: when the skipper does not fire and the declared Content-Length exceeds
\* the limit, the body-limit handler returns the too-large error without
\* calling Next, without a pool.Get, leaving Request.Body the raw stream, and
\* with no Read having reached that stream when it returns; with a declared
\* length of at most the limit, or none (-1), it does not take that way: it
\* checks a reader out and calls Next.
C9_FastPath ==
    \A t \in Reqs :
        (InFlight(t) /\ ~req[t].skip /\ req[t].obs.entry # "none") =>
            IF req[t].cl > limit
            THEN /\ req[t].obs.entry = "reject"
                 /\ req[t].obs.limitRet = ErrTooLarge
                 /\ req[t].obs.nexts = 0
                 /\ req[t].obs.gets = 0
                 /\ req[t].body = 0
                 /\ LimitFrames(t) = {}
                 /\ BLTop(t).ops = 0 => ~req[t].obs.rawRead
            ELSE /\ req[t].obs.entry = "wrap"
                 /\ req[t].obs.nexts = 1
                 /\ req[t].obs.gets = 1
                 /\ req[t].body # 0
                 /\ req[t].obs.limitRet \in {"none", req[t].obs.nextRet}

\* Request 1 declared one byte more than the limit and was rejected: the
\* handler before the middleware has the error in hand; request 2, of
\* undeclared length, went on to the handler after the middleware.
C9_Witness ==
    /\ req[1].cl = limit + 1
    /\ ~req[1].skip
    /\ BLAt(1, "pre", "after")
    /\ BLTop(1).got = ErrTooLarge
    /\ BLTop(1).ops = 0
    /\ req[2].cl = 0 - 1
    /\ ~req[2].skip
    /\ BLAt(2, "down", "entry")

\* C10: every reader a body-limit invocation checked out is back in the pool,
\* put exactly once, when the invocation has returned, however the handlers
\* after it ended: the readers checked out are those of the invocations still
\* in progress, and with no request in flight none is checked out.
C10_ReaderReturned ==
    /\ out = UNION {{req[t].stack[k].r : k \in LimitFrames(t)} : t \in Reqs}
                \ {0}
    /\ pool \cap out = {}
    /\ pool \cup out = 1..Len(readers)
    /\ \A t \in Reqs :
          /\ req[t].obs.puts <= req[t].obs.gets
          /\ (InFlight(t) /\ req[t].obs.limitRet # "none") =>
                 req[t].obs.puts = req[t].obs.gets
    /\ (\A t \in Reqs : ~InFlight(t)) => out = {}

\* Two overlapping requests each had a reader of its own checked out; the
\* handler after the middleware returned an error in request 1 and called Abort
\* and returned nil in request 2 (its index ran on from len(handlers)); both
\* readers are back.
C10_Witness ==
    /\ \A t \in Reqs : req[t].st = "done"
    /\ Len(readers) = 2
    /\ pool = {1, 2}
    /\ out = {}
    /\ req[1].result = ErrDown
    /\ req[2].result = NoErr
    /\ req[2].index = Len(BLChain) + 3

\* C11: when the skipper fires the body-limit handler is a no-op: whatever the
\* declared Content-Length and the size of the body, it calls Next once,
\* checks no reader out, leaves Request.Body the raw stream (so no Read of the
\* request ends in the too-large error), and returns what its Next call
\* returned, never a too-large error of its own.
C11_SkipIsNoOp ==
    \A t \in Reqs :
        (InFlight(t) /\ req[t].skip /\ req[t].obs.entry # "none") =>
            /\ req[t].obs.entry = "skip"
            /\ req[t].obs.nexts = 1
            /\ req[t].obs.gets = 0
            /\ req[t].obs.puts = 0
            /\ req[t].body = 0
            /\ \A k \in 1..Len(req[t].stack) :
                  /\ req[t].stack[k].r = 0
                  /\ req[t].stack[k].last # ErrTooLarge
            /\ req[t].obs.nextRet # ErrTooLarge
            /\ req[t].obs.limitRet \in {"none", req[t].obs.nextRet}

\* Request 1 declared one byte more than the limit and the skipper fired: the
\* handler after the middleware read the whole body from the raw stream and
\* returned an error of its own, which the middleware handed on to the handler
\* before it.
C11_Witness ==
    /\ req[1].skip
    /\ req[1].cl = limit + 1
    /\ req[1].remaining = 0
    /\ req[1].obs.rawRead
    /\ BLAt(1, "pre", "after")
    /\ BLTop(1).got = ErrDown
    /\ req[1].obs.limitRet = ErrDown

\* ------------------------------------------- claims on the Context's store

\* C14: on one Context within one request, Get(k) returns the value of the
\* latest Set of k, whatever was Set for other keys before or after, and nil
\* for a key not Set in this request, also while the store is not allocated.
C14_GetAfterSet ==
    \A k \in Keys : GetData(data, k) = expect[k]

\* The first handler made a call and then called Next; the second handler Set
\* k1 and then k2: Get gives v2 for k1 and v1 for k2.
C14_Witness ==
    /\ Len(stack) = 2
    /\ stack[1].lastOp = "Next"
    /\ stack[1].ops = 2
    /\ Top.lastOp = "Set"
    /\ Top.ops = 2
    /\ expect = [k \in Keys |-> IF k = "k1" THEN "v2" ELSE "v1"]
    /\ GetData(data, "k1") = "v2"
    /\ GetData(data, "k2") = "v1"

\* C15: after Reset on a reused Context, whatever Set, SetStore,
\* SetDataWriter, SetKontext, Next and Abort calls the request before made, Get
\* returns nil for every key, the index is -1, the writer is the default
\* writer and the standard context is the background context (never
\* cancelled); the first handler a request invokes is the one at position 0.
C15_ResetClears ==
    /\ phase = "ready" =>
          /\ \A k \in Keys : GetData(data, k) = Nil
          /\ index = 0 - 1
          /\ writer = DefaultDataWriter
          /\ ktx = Background
    /\ hist.invoked # <<>> => hist.invoked[1] = 0

\* The request before the Reset had items in the store, a writer of its own,
\* a cancelled standard context and the index past len(handlers).
C15_Witness ==
    /\ phase = "ready"
    /\ prev.reused
    /\ handlers = 3
    /\ \A k \in Keys : GetData(prev.data, k) # Nil
    /\ prev.writer = CustomDataWriter
    /\ prev.ktx = "cancelled"
    /\ prev.index = handlers + 1

\* The names handlers ask Param for.
ParamNames == {"id", "missing"}

\* C19: Reset clears all per-request fields of a reused Context: after Reset
\* and until the parameters of the new request are assigned, Param(name)
\* returns the empty string for every name.
C19_ResetClearsParams ==
    (phase = "ready" /\ ~assigned) =>
        \A name \in ParamNames : Param(pnames, pvalues, name) = ""

\* ----------------------------------------------- more claims on the chain

\* C17: once any handler has returned a non-nil error in a request, no
\* further handler is invoked in that request, whatever the enclosing handlers
\* do with the error they receive from Next.
C17_NoneAfterError == ~hist.afterErr

\* C17 as amended: once a handler has returned a non-nil error, a further
\* handler is invoked in that request only after a handler has, since that
\* error, returned nil or called Next again; while every handler that gets the
\* error returns a non-nil error and none calls Next again, no further handler
\* is invoked and the request ends with a non-nil result.
C17_NoneAfterErrorUnlessResumed ==
    /\ hist.afterErr => hist.resumed
    /\ (phase = "done" /\ hist.errs # {} /\ ~hist.resumed) => result # NoErr

\* Of three handlers the second, invoked by the Next call of the first,
\* returned an error; the first returned an error of its own instead; the
\* request ended with that error and the third handler never invoked.
C17_Witness ==
    /\ handlers = 3
    /\ phase = "done"
    /\ hist.invoked = <<0, 1>>
    /\ hist.depths = <<0, 1>>
    /\ hist.errs = {ErrOf(0), ErrOf(1)}
    /\ hist.firstErr = ErrOf(1)
    /\ result = ErrOf(0)
    /\ ~hist.resumed

\* C18: between two Reset calls the index starts at -1 and never decreases
\* under any sequence of Next and Abort calls, and whenever the chain is
\* exhausted (a Next call has run out of handlers, or Abort was called) the
\* index equals len(handlers).
C18_CursorMonotone ==
    /\ [](phase = "ready" => index = 0 - 1)
    /\ [][index' >= index \/ phase' = "ready"]_vars
    /\ [](hist.exhausted => index = handlers)

\* The step is a call of Abort, directly or by String, by the executing
\* handler.
AbortCalled ==
    /\ stack # <<>>
    /\ Len(stack') = Len(stack)
    /\ stack'[Len(stack')].ops = Top.ops + 1
    /\ stack'[Len(stack')].lastOp \in {"Abort", "String"}

\* C18 as amended: between two Reset calls the index starts at -1; a Next call
\* never decreases it; an Abort call sets it to len(handlers), which decreases
\* it only when Next calls had moved it past len(handlers); and once the chain
\* is exhausted the index is at least len(handlers).
C18_CursorBounded ==
    /\ [](phase = "ready" => index = 0 - 1)
    /\ [][index' < index =>
             \/ phase' = "ready"
             \/ AbortCalled /\ index > handlers /\ index' = handlers]_vars
    /\ [](hist.exhausted => index >= handlers)

\* The last handler's Next call and the loop of the Next call that invoked it
\* moved the index to len(handlers) + 1; then the first handler called Abort
\* and the index is len(handlers) again.
C18_Witness ==
    /\ handlers = 2
    /\ hist.invoked = <<0, 1>>
    /\ hist.top = handlers + 1
    /\ Len(stack) = 1
    /\ Top.lastOp = "Abort"
    /\ index = handlers

\* C20: whenever a handler is executing, at any point of its body, the index
\* is its position and lies in 0..len(handlers)-1: Handler() returns the
\* executing handler, SetHandler assigns its slot, and neither indexes outside
\* the handlers.
C20_IndexIsExecuting ==
    Running => Handler(index, handlers) = [panic |-> FALSE, pos |-> Top.pos]

\* ------------------------------------------------------- claims on access

\* C12: each invocation of the access-log handler calls the logging callback
\* exactly once, after its Next call has returned, so after every handler
\* after it that runs in that request has finished (no handler is invoked once
\* the log is emitted), whether the chain succeeded or failed, and returns
\* exactly what its Next call returned.
C12_LogOnceAfterChain ==
    /\ ac.logRet = "none" => logs = <<>>
    /\ ac.logRet # "none" =>
          /\ Len(logs) = 1
          /\ ac.nextRet # "none"
          /\ logs[1].err = ac.nextRet
          /\ logs[1].above = 0
          /\ ac.logRet = ac.nextRet
    /\ ~ac.late

\* C12 as amended: each invocation of the access-log handler calls the logging
\* callback exactly once, after its Next call has returned, so after every
\* handler that Next call invoked has finished, and returns exactly what its
\* Next call returned; a handler is invoked after the log only when that Next
\* call returned an error.
C12_LogOnceAfterNext ==
    /\ ac.logRet = "none" => logs = <<>>
    /\ ac.logRet # "none" =>
          /\ Len(logs) = 1
          /\ ac.nextRet # "none"
          /\ logs[1].err = ac.nextRet
          /\ logs[1].above = 0
          /\ ac.logRet = ac.nextRet
    /\ ac.late => ac.nextRet # NoErr

\* Chain [logger, h1]: h1 wrote two bytes and returned an error; the logger
\* logged once and the top-level Next returned h1's error.
C12_Witness ==
    /\ ac.n = 2
    /\ ac.lp = 0
    /\ ac.st = "done"
    /\ ac.result = ErrOf(1)
    /\ ac.nextRet = ErrOf(1)
    /\ Len(logs) = 1
    /\ logs[1].down = 2

\* C13: the bytes-written value handed to the logging callback equals the
\* number of bytes the handlers after the logger wrote to the response during
\* the request.
C13_BytesWritten ==
    \A i \in 1..Len(logs) : logs[i].rw.BytesWritten = logs[i].down

\* C16: GetClientIP returns the X-Real-IP header if it is non-empty, else the
\* X-Forwarded-For header if it is non-empty, else the peer address, of which
\* host:port gives the host and an address without a port is returned as it
\* is.
C16_ClientIP ==
    ipRes.called =>
        ipRes.ip = IF ipReq.xRealIP # <<>> THEN ipReq.xRealIP
                   ELSE IF ipReq.xForwardedFor # <<>> THEN ipReq.xForwardedFor
                   ELSE ipReq.peer.host

====
